---------------------------- MODULE Spec2Model ----------------------------
(***************************************************************************)
(* Model of the deej mixer firmware (src/arduino/src/main.cpp): six rotary *)
(* encoder channels, four output-select buttons, 96 LEDs on LP50xx chips,  *)
(* and the line based serial protocol.                                     *)
(*                                                                         *)
(* One pass of loop() is modelled as three consecutive steps               *)
(*   PollInputs   (encoders, encoder buttons, output buttons)              *)
(*   HandleSerial (handleSerialCommands)                                   *)
(*   EndTick      (updateBackgroundLighting, sendEncoderValues, delay)     *)
(* The environment (encoder interrupts, pin levels, bytes sent by the host)*)
(* acts between two passes, at most once per pass.                         *)
(*                                                                         *)
(* Text is a sequence of one-character strings.  C doubles and floats are  *)
(* fixed-point integers: volumes count halves (ENCODER_VOLUME_PER_COUNT is *)
(* 0.5), parsed fractions count thousandths.                               *)
(***************************************************************************)
EXTENDS Integers, Sequences, FiniteSets, TLC

\* ------------------------------------------------------------------------
\* Program constants
\* ------------------------------------------------------------------------
DEBOUNCE_DELAY == 50
MAX_ENCODER_VALUE == 100
\* ENCODER_VOLUME_PER_COUNT = 0.5f, as the rational KNum / KDen
KNum == 1
KDen == 2
TOTAL_LEDS == 96
LEDS_PER_CHIP == 12
LED_CHIP_ADDRESSES == <<48, 49, 50, 51>>
NUM_CHIPS_PER_BANK == Len(LED_CHIP_ADDRESSES)
LEDS_PER_BANK == NUM_CHIPS_PER_BANK * LEDS_PER_CHIP
ENCODER_LED_COUNT == 10
BACKLIGHT_FIRST_LED == 65
BACKLIGHT_LAST_LED == 96
BACKLIGHT_LED_COUNT == BACKLIGHT_LAST_LED - BACKLIGHT_FIRST_LED + 1
OUT0_COLOR_ADDR == 20
DEEJ_MAX == 1023
RAINBOW_PERIOD == 1280
SETUP_DELAY == 50
LOOP_DELAY == 10
HIGH == 1
LOW == 0
LONG_MAX == 2147483647

BG_OFF == "BG_OFF"
BG_SOLID == "BG_SOLID"
BG_RGB == "BG_RGB"

Color(r, g, b) == [r |-> r, g |-> g, b |-> b]
BLACK == Color(0, 0, 0)
BUTTON_ACTIVE_COLOR == Color(50, 50, 50)
BUTTON_INACTIVE_COLOR == Color(0, 0, 0)
MUTED_COLOR == Color(50, 0, 0)
DEFAULT_ZERO_COLOR == Color(50, 0, 0)
DEFAULT_FULL_COLOR == Color(0, 50, 0)
DEFAULT_BACKGROUND_COLOR == Color(0, 50, 0)

\* encoders[]: first LED and wiring order of each channel (0-based index)
ENCODER_START_LED == <<1, 11, 21, 31, 41, 51>>
\* wiring orders in which channel 1 names LED 9 twice and LED 7 never
ENCODER_LED_ORDER_Repeated ==
  << <<10, 8, 6, 4, 1, 2, 3, 5, 7, 9>>,
     <<1, 2, 10, 8, 6, 4, 3, 5, 9, 9>>,
     <<1, 2, 3, 4, 8, 5, 6, 7, 9, 10>>,
     <<1, 2, 3, 4, 5, 6, 7, 8, 9, 10>>,
     <<2, 4, 6, 7, 8, 5, 3, 1, 9, 10>>,
     <<2, 4, 6, 8, 9, 10, 7, 5, 3, 1>> >>
ENCODER_LED_ORDER ==
  << <<10, 8, 6, 4, 1, 2, 3, 5, 7, 9>>,
     <<1, 2, 10, 8, 6, 4, 3, 5, 7, 9>>,
     <<1, 2, 3, 4, 8, 5, 6, 7, 9, 10>>,
     <<1, 2, 3, 4, 5, 6, 7, 8, 9, 10>>,
     <<2, 4, 6, 7, 8, 5, 3, 1, 9, 10>>,
     <<2, 4, 6, 8, 9, 10, 7, 5, 3, 1>> >>
\* buttons[]: LED of each output button
BUTTON_LED == <<61, 62, 63, 64>>
numEncoders == Len(ENCODER_START_LED)
numButtons == Len(BUTTON_LED)
Channels == 0 .. (numEncoders - 1)
Buttons == 0 .. (numButtons - 1)

\* ------------------------------------------------------------------------
\* C arithmetic
\* ------------------------------------------------------------------------
\* integer division of C: truncation toward zero (den > 0)
TruncDiv(num, den) ==
  IF num >= 0 THEN num \div den ELSE -((-num) \div den)

\* round() of C applied to the rational num / den (den > 0): halves go away
\* from zero
Round(num, den) ==
  IF num >= 0 THEN (2 * num + den) \div (2 * den)
  ELSE -((2 * (-num) + den) \div (2 * den))

Min(a, b) == IF a < b THEN a ELSE b
Max(a, b) == IF a > b THEN a ELSE b

\* constrain(x, lo, hi) of Arduino.h
constrain(x, lo, hi) == IF x < lo THEN lo ELSE IF x > hi THEN hi ELSE x

\* map() rounding the quotient to the nearest integer
map_Rounding(x, in_min, in_max, out_min, out_max) ==
  TruncDiv((x - in_min) * (out_max - out_min) + (in_max - in_min) \div 2,
           in_max - in_min) + out_min

\* map(x, in_min, in_max, out_min, out_max) of the Arduino core: integer
\* arithmetic, the quotient truncated
map(x, in_min, in_max, out_min, out_max) ==
  TruncDiv((x - in_min) * (out_max - out_min), in_max - in_min) + out_min

\* ------------------------------------------------------------------------
\* Arduino String and libc parsing, on sequences of characters
\* ------------------------------------------------------------------------
DecDigits == <<"0", "1", "2", "3", "4", "5", "6", "7", "8", "9">>
HexLower == <<"a", "b", "c", "d", "e", "f">>
HexUpper == <<"A", "B", "C", "D", "E", "F">>
Spaces == {" ", "\t", "\r"}

IsDigit(c) == \E k \in 1 .. 10 : DecDigits[k] = c
DigitVal(c) == (CHOOSE k \in 1 .. 10 : DecDigits[k] = c) - 1
IsHexDigit(c) ==
  IsDigit(c) \/ (\E k \in 1 .. 6 : HexLower[k] = c \/ HexUpper[k] = c)
HexVal(c) ==
  IF IsDigit(c) THEN DigitVal(c)
  ELSE 9 + (CHOOSE k \in 1 .. 6 : HexLower[k] = c \/ HexUpper[k] = c)

\* tolower() on the letters the protocol compares
LowerOf(c) ==
  CASE c = "R" -> "r" [] c = "G" -> "g" [] c = "B" -> "b"
    [] (\E k \in 1 .. 6 : HexUpper[k] = c) ->
         HexLower[CHOOSE k \in 1 .. 6 : HexUpper[k] = c]
    [] OTHER -> c

\* String::indexOf(ch): 0-based position of the first ch, -1 when absent
indexOf(s, ch) ==
  IF \E k \in 1 .. Len(s) : s[k] = ch
  THEN (CHOOSE k \in 1 .. Len(s) : s[k] = ch /\ \A j \in 1 .. (k - 1) : s[j] # ch) - 1
  ELSE -1

\* String::lastIndexOf(ch)
lastIndexOf(s, ch) ==
  IF \E k \in 1 .. Len(s) : s[k] = ch
  THEN (CHOOSE k \in 1 .. Len(s) :
          s[k] = ch /\ \A j \in (k + 1) .. Len(s) : s[j] # ch) - 1
  ELSE -1

\* String::substring(left, right): characters left .. right-1 (0-based)
substring(s, left, right) ==
  LET lo == Min(left, right)
      hi == Min(Max(left, right), Len(s))
  IN IF lo >= Len(s) THEN <<>> ELSE SubSeq(s, lo + 1, hi)

\* String::substring(left)
substringFrom(s, left) == substring(s, left, Len(s))

\* String::charAt(0)
charAt0(s) == IF Len(s) = 0 THEN "" ELSE s[1]

\* String::equalsIgnoreCase
equalsIgnoreCase(s, t) ==
  /\ Len(s) = Len(t)
  /\ \A k \in 1 .. Len(s) : LowerOf(s[k]) = LowerOf(t[k])

RECURSIVE SkipSpaces(_)
SkipSpaces(s) ==
  IF Len(s) > 0 /\ s[1] \in Spaces THEN SkipSpaces(Tail(s)) ELSE s

\* value of the longest prefix of decimal digits, saturating at LONG_MAX
RECURSIVE DecPrefix(_, _)
DecPrefix(s, acc) ==
  IF Len(s) = 0 \/ ~IsDigit(s[1]) THEN acc
  ELSE LET d == DigitVal(s[1])
       IN DecPrefix(Tail(s),
                    IF acc > (LONG_MAX - d) \div 10 THEN LONG_MAX ELSE acc * 10 + d)

RECURSIVE HexPrefix(_, _)
HexPrefix(s, acc) ==
  IF Len(s) = 0 \/ ~IsHexDigit(s[1]) THEN acc
  ELSE LET d == HexVal(s[1])
       IN HexPrefix(Tail(s),
                    IF acc > (LONG_MAX - d) \div 16 THEN LONG_MAX ELSE acc * 16 + d)

\* sign and rest of a number text, after the leading white space
SignOf(s) == IF Len(s) > 0 /\ s[1] = "-" THEN -1 ELSE 1
Unsigned(s) == IF Len(s) > 0 /\ s[1] \in {"-", "+"} THEN Tail(s) ELSE s

\* String::toInt(): atol of the text
toInt(s) ==
  LET t == SkipSpaces(s)
  IN SignOf(t) * DecPrefix(Unsigned(t), 0)

\* number of leading decimal digits
RECURSIVE DigitRun(_)
DigitRun(s) ==
  IF Len(s) = 0 \/ ~IsDigit(s[1]) THEN 0 ELSE 1 + DigitRun(Tail(s))

\* String::toFloat(): atof of a text in plain decimal notation, in
\* thousandths (FloatDen); fraction digits after the third are dropped
FloatDen == 1000
toFloat(s) ==
  LET t == SkipSpaces(s)
      u == Unsigned(t)
      n == DigitRun(u)
      ip == DecPrefix(u, 0)
      rest == substringFrom(u, n)
      fr == IF Len(rest) > 0 /\ rest[1] = "." THEN Tail(rest) ELSE <<>>
      m == DigitRun(fr)
      f3 == SubSeq(fr, 1, Min(m, 3))
      scale == CASE Len(f3) = 0 -> 1000 [] Len(f3) = 1 -> 100
                 [] Len(f3) = 2 -> 10 [] OTHER -> 1
  IN SignOf(t) * (ip * FloatDen + DecPrefix(f3, 0) * scale)

\* strtol(text, NULL, 16)
strtol16(s) ==
  LET t == SkipSpaces(s)
      u == Unsigned(t)
      v == IF Len(u) >= 2 /\ u[1] = "0" /\ u[2] \in {"x", "X"}
              /\ (Len(u) >= 3 /\ IsHexDigit(u[3]))
           THEN SubSeq(u, 3, Len(u)) ELSE u
  IN SignOf(t) * HexPrefix(v, 0)

\* hexToColor(hex)
hexToColor(hex) ==
  LET h == IF Len(hex) > 0 /\ hex[1] = "#" THEN Tail(hex) ELSE hex
      number == strtol16(h)
  IN Color((number \div 65536) % 256, (number \div 256) % 256, number % 256)

\* String(int): decimal text of an integer
RECURSIVE NatToChars(_)
NatToChars(n) ==
  IF n < 10 THEN <<DecDigits[n + 1]>>
  ELSE Append(NatToChars(n \div 10), DecDigits[(n % 10) + 1])
IntToChars(n) == IF n < 0 THEN <<"-">> \o NatToChars(-n) ELSE NatToChars(n)

\* ------------------------------------------------------------------------
\* State
\* ------------------------------------------------------------------------
VARIABLES
  encoders,              \* encoders[]: per channel driver count and fields
  buttons,               \* buttons[]: per output button debounce fields
  selectedOutputIndex,
  backgroundMode,
  backgroundSolidColor,
  rainbowHue,
  serialBuffer,
  led,                   \* colour registers of the LP50xx chips, by address
  out,                   \* lines printed on Serial during the current pass
  wr,                    \* LEDs written on the bus by the last step
  rx,                    \* bytes sent by the host and not yet read
  encPin,                \* level of each encoder button pin
  btnPin,                \* level of each output button pin
  now,                   \* millis()
  pc,                    \* position of the program: setup, poll, serial, end
  ticks,                 \* passes of loop() completed
  envActed,              \* the environment has acted since the last pass
  handled,               \* history: bytes read by the last handleSerialCommands
  hostForced,            \* history: detent the host last asked for a channel, if any
  changedWhileMuted,     \* history: the detent of a channel changed while muted
  preMute,               \* history: segment a muted channel showed before the press
  holds                  \* history: toggles and presses while a button is held

vars ==
  <<encoders, buttons, selectedOutputIndex, backgroundMode,
    backgroundSolidColor, rainbowHue, serialBuffer, led, out, wr, rx,
    encPin, btnPin, now, pc, ticks, envActed, handled, hostForced,
    changedWhileMuted, preMute, holds>>

devVars ==
  <<encoders, buttons, selectedOutputIndex, backgroundMode,
    backgroundSolidColor, rainbowHue, serialBuffer, led, out, wr>>

\* the device state as one record, for the operators that model functions
Dev ==
  [encoders |-> encoders, buttons |-> buttons,
   selectedOutputIndex |-> selectedOutputIndex,
   backgroundMode |-> backgroundMode,
   backgroundSolidColor |-> backgroundSolidColor,
   rainbowHue |-> rainbowHue, serialBuffer |-> serialBuffer,
   led |-> led, out |-> out, wr |-> wr]

Commit(D) ==
  /\ encoders' = D.encoders
  /\ buttons' = D.buttons
  /\ selectedOutputIndex' = D.selectedOutputIndex
  /\ backgroundMode' = D.backgroundMode
  /\ backgroundSolidColor' = D.backgroundSolidColor
  /\ rainbowHue' = D.rainbowHue
  /\ serialBuffer' = D.serialBuffer
  /\ led' = D.led
  /\ out' = D.out
  /\ wr' = D.wr

\* ------------------------------------------------------------------------
\* LED bus
\* ------------------------------------------------------------------------
\* setSingleLedColor: bank, chip address and first register of a LED
addressOf(ledNum) ==
  LET bankIndex == (ledNum - 1) \div LEDS_PER_BANK
      ledNumInBank == (ledNum - 1) % LEDS_PER_BANK
      chipIndexInBank == ledNumInBank \div LEDS_PER_CHIP
      ledNumOnChip == ledNumInBank % LEDS_PER_CHIP
  IN <<bankIndex, LED_CHIP_ADDRESSES[chipIndexInBank + 1],
       OUT0_COLOR_ADDR + ledNumOnChip * 3>>

\* addressOf tabulated for the LEDs that exist
AddressTable == [n \in 1 .. TOTAL_LEDS |-> addressOf(n)]

LedAddrs == {AddressTable[n] : n \in 1 .. TOTAL_LEDS}

\* a loop of calls setSingleLedColor(Target[i], C[i]), i = 0, 1, .. in this
\* order: a call outside 1 .. TOTAL_LEDS writes nothing, and of two calls on
\* one LED the later one stays
ledLoop(D, Target, C) ==
  LET valid == {i \in DOMAIN Target : ~(Target[i] < 1 \/ Target[i] > TOTAL_LEDS)}
      written == {AddressTable[Target[i]] : i \in valid}
  IN [D EXCEPT
        !.led = [a \in LedAddrs |->
                   IF a \notin written THEN @[a]
                   ELSE LET W == {i \in valid : AddressTable[Target[i]] = a}
                        IN C[CHOOSE i \in W : \A j \in W : j <= i]],
        !.wr = @ \cup {Target[i] : i \in valid}]

setSingleLedColor(D, ledNum, c) ==
  ledLoop(D, [i \in {0} |-> ledNum], [i \in {0} |-> c])

\* colour shown by LED n
LedColor(n) == led[addressOf(n)]

\* (byte) of a float: the truncated value when it fits a byte; otherwise the
\* conversion is undefined and yields the byte the build produces (oob.byte)
ByteCast(v, oob) == IF v \in 0 .. 255 THEN v ELSE oob.byte

\* lerp(a, b, t) with t = tn / td
lerp(a, b, tn, td, oob) ==
  Color(ByteCast(TruncDiv(a.r * td + (b.r - a.r) * tn, td), oob),
        ByteCast(TruncDiv(a.g * td + (b.g - a.g) * tn, td), oob),
        ByteCast(TruncDiv(a.b * td + (b.b - a.b) * tn, td), oob))

\* enc.ledOrder[i]: past the end of the array the read is undefined and
\* yields the value the build produces (oob.idx)
LedOrderAt(encoderIndex, i, oob) ==
  IF i < ENCODER_LED_COUNT THEN ENCODER_LED_ORDER[encoderIndex + 1][i + 1]
  ELSE oob.idx

\* ledsToLight of updateEncoderLedDisplay
LedsToLight(detent) == Round(detent * ENCODER_LED_COUNT, MAX_ENCODER_VALUE)

\* updateEncoderLedDisplay: the segment of the channel switched off
ClearSegment(D, startLed) ==
  ledLoop(D, [i \in 0 .. (ENCODER_LED_COUNT - 1) |-> startLed + i],
          [i \in 0 .. (ENCODER_LED_COUNT - 1) |-> BLACK])

\* updateEncoderLedDisplay: the colour of the i-th lit LED
SegmentColor(enc, i, ledsToLight, oob) ==
  IF enc.isMuted THEN MUTED_COLOR
  ELSE lerp(enc.zeroColor, enc.fullColor, IF ledsToLight = 1 THEN 0 ELSE i,
            ENCODER_LED_COUNT - 1, oob)

\* updateEncoderLedDisplay: the first ledsToLight LEDs of the wiring order lit
LightSegment(D, encoderIndex, ledsToLight, oob) ==
  ledLoop(D,
          [i \in 0 .. (ledsToLight - 1) |->
             ENCODER_START_LED[encoderIndex + 1] + LedOrderAt(encoderIndex, i, oob) - 1],
          [i \in 0 .. (ledsToLight - 1) |->
             SegmentColor(D.encoders[encoderIndex], i, ledsToLight, oob)])

updateEncoderLedDisplay(D, encoderIndex, oob) ==
  LET ledsToLight == LedsToLight(D.encoders[encoderIndex].lastDetentPosition)
      cleared == ClearSegment(D, ENCODER_START_LED[encoderIndex + 1])
  IN LightSegment(cleared, encoderIndex, ledsToLight, oob)

\* the renders of setup() and of the polling phase never read past the
\* wiring order; they are given this value for the undefined outcomes
NoOob == [idx |-> 0, byte |-> 0]

\* ------------------------------------------------------------------------
\* Output selector
\* ------------------------------------------------------------------------
\* applyOutputSelection: the LED of every output button
PaintButtons(D) ==
  ledLoop(D, [i \in 0 .. (numButtons - 1) |-> BUTTON_LED[i + 1]],
          [i \in 0 .. (numButtons - 1) |->
             IF i = D.selectedOutputIndex THEN BUTTON_ACTIVE_COLOR
             ELSE BUTTON_INACTIVE_COLOR])

\* applyOutputSelection without the test that the selection changed
applyOutputSelection_AlwaysNotify(D, index, notifySerial) ==
  IF index < 0 \/ index >= numButtons THEN D
  ELSE LET painted == PaintButtons([D EXCEPT !.selectedOutputIndex = index])
       IN IF notifySerial
          THEN [painted EXCEPT !.out = Append(@, <<"O", ":">> \o IntToChars(index + 1))]
          ELSE painted

applyOutputSelection(D, index, notifySerial) ==
  IF index < 0 \/ index >= numButtons THEN D
  ELSE LET previousIndex == D.selectedOutputIndex
           painted == PaintButtons([D EXCEPT !.selectedOutputIndex = index])
       IN IF notifySerial /\ previousIndex # index
          THEN [painted EXCEPT !.out = Append(@, <<"O", ":">> \o IntToChars(index + 1))]
          ELSE painted

\* ------------------------------------------------------------------------
\* Volume mapping
\* ------------------------------------------------------------------------
\* InterruptEncoder::read(): twice the stored count
driverRead(count) == count * 2

\* EncoderInfo::getRawCount
getRawCount(count) == TruncDiv(driverRead(count), 2)

\* a volume (double) is the integer number of 1/KDen it holds
ToVolume(n) == n * KDen

encoderCountToVolume(rawCount) == (-rawCount) * KNum

\* volumeToEncoderCount without the division by ENCODER_VOLUME_PER_COUNT
volumeToEncoderCount_Unscaled(volume) == Round(-volume, KDen)

volumeToEncoderCount(volume) ==
  IF KNum <= 0 THEN 0 ELSE Round(-volume, KNum)

\* the encoder update without the write-back of the clamped position
pollEncoder_NoWriteBack(D, i) ==
  IF KNum <= 0 THEN D
  ELSE LET enc == D.encoders[i]
           rawCount == getRawCount(enc.count)
           requestedVolume == encoderCountToVolume(rawCount)
           clampedVolume == constrain(requestedVolume, 0, ToVolume(MAX_ENCODER_VALUE))
           currentDetentPosition == Round(clampedVolume, KDen)
       IN IF enc.lastDetentPosition # currentDetentPosition
          THEN updateEncoderLedDisplay(
                 [D EXCEPT !.encoders[i].lastDetentPosition = currentDetentPosition],
                 i, NoOob)
          ELSE D

\* the encoder update skipping a muted channel
pollEncoder_SkipMuted(D, i) ==
  IF D.encoders[i].isMuted THEN D
  ELSE
    IF KNum <= 0 THEN D
    ELSE LET enc == D.encoders[i]
             rawCount == getRawCount(enc.count)
             requestedVolume == encoderCountToVolume(rawCount)
             clampedVolume == constrain(requestedVolume, 0, ToVolume(MAX_ENCODER_VALUE))
             D1 == IF requestedVolume # clampedVolume
                   THEN [D EXCEPT !.encoders[i].count = volumeToEncoderCount(clampedVolume)]
                   ELSE D
             currentDetentPosition == Round(clampedVolume, KDen)
         IN IF enc.lastDetentPosition # currentDetentPosition
            THEN updateEncoderLedDisplay(
                   [D1 EXCEPT !.encoders[i].lastDetentPosition = currentDetentPosition],
                   i, NoOob)
            ELSE D1

\* loop(), "Check Rotary Encoders", one channel
pollEncoder(D, i) ==
  IF KNum <= 0 THEN D
  ELSE LET enc == D.encoders[i]
           rawCount == getRawCount(enc.count)
           requestedVolume == encoderCountToVolume(rawCount)
           clampedVolume == constrain(requestedVolume, 0, ToVolume(MAX_ENCODER_VALUE))
           D1 == IF requestedVolume # clampedVolume
                 THEN [D EXCEPT !.encoders[i].count = volumeToEncoderCount(clampedVolume)]
                 ELSE D
           currentDetentPosition == Round(clampedVolume, KDen)
       IN IF enc.lastDetentPosition # currentDetentPosition
          THEN updateEncoderLedDisplay(
                 [D1 EXCEPT !.encoders[i].lastDetentPosition = currentDetentPosition],
                 i, NoOob)
          ELSE D1

RECURSIVE pollEncoders(_, _)
pollEncoders(D, i) ==
  IF i >= numEncoders THEN D ELSE pollEncoders(pollEncoder(D, i), i + 1)

\* the encoder button poll toggling on every accepted transition
pollEncoderButton_AnyEdge(D, i, reading, millis) ==
  LET e == D.encoders[i]
  IN IF reading # e.lastButtonState /\ millis - e.lastDebounceTime > DEBOUNCE_DELAY
     THEN updateEncoderLedDisplay(
            [D EXCEPT !.encoders[i].lastDebounceTime = millis,
                      !.encoders[i].lastButtonState = reading,
                      !.encoders[i].isMuted = ~e.isMuted], i, NoOob)
     ELSE D

\* the encoder button poll without the debounce window
pollEncoderButton_NoDebounce(D, i, reading, millis) ==
  LET e == D.encoders[i]
  IN IF reading # e.lastButtonState
     THEN LET D1 == [D EXCEPT !.encoders[i].lastDebounceTime = millis,
                              !.encoders[i].lastButtonState = reading]
          IN IF reading = LOW
             THEN updateEncoderLedDisplay(
                    [D1 EXCEPT !.encoders[i].isMuted = ~e.isMuted], i, NoOob)
             ELSE D1
     ELSE D

\* loop(), "Check Encoder Buttons", one channel
pollEncoderButton(D, i, reading, millis) ==
  LET e == D.encoders[i]
  IN IF reading # e.lastButtonState /\ millis - e.lastDebounceTime > DEBOUNCE_DELAY
     THEN LET D1 == [D EXCEPT !.encoders[i].lastDebounceTime = millis,
                              !.encoders[i].lastButtonState = reading]
          IN IF reading = LOW
             THEN updateEncoderLedDisplay(
                    [D1 EXCEPT !.encoders[i].isMuted = ~e.isMuted], i, NoOob)
             ELSE D1
     ELSE D

RECURSIVE pollEncoderButtons(_, _, _, _)
pollEncoderButtons(D, i, pins, millis) ==
  IF i >= numEncoders THEN D
  ELSE pollEncoderButtons(pollEncoderButton(D, i, pins[i], millis), i + 1, pins, millis)

\* a debounce in which a reading rejected inside the window starts the
\* window again
pollButton_RestartWindow(D, i, reading, millis) ==
  LET b == D.buttons[i]
  IN IF reading # b.lastState /\ millis - b.lastDebounceTime > DEBOUNCE_DELAY
     THEN LET D1 == [D EXCEPT !.buttons[i].lastDebounceTime = millis,
                              !.buttons[i].lastState = reading]
          IN IF reading = LOW THEN applyOutputSelection(D1, i, TRUE) ELSE D1
     ELSE IF reading # b.lastState
     THEN [D EXCEPT !.buttons[i].lastDebounceTime = millis]
     ELSE D

\* loop(), "Check Rubber Dome Buttons", one button
pollButton(D, i, reading, millis) ==
  LET b == D.buttons[i]
  IN IF reading # b.lastState /\ millis - b.lastDebounceTime > DEBOUNCE_DELAY
     THEN LET D1 == [D EXCEPT !.buttons[i].lastDebounceTime = millis,
                              !.buttons[i].lastState = reading]
          IN IF reading = LOW THEN applyOutputSelection(D1, i, TRUE) ELSE D1
     ELSE D

RECURSIVE pollButtons(_, _, _, _)
pollButtons(D, i, pins, millis) ==
  IF i >= numButtons THEN D
  ELSE pollButtons(pollButton(D, i, pins[i], millis), i + 1, pins, millis)

\* ------------------------------------------------------------------------
\* Serial protocol
\* ------------------------------------------------------------------------
\* handleSerialCommands, commandID == 'V'
handleVolume(D, payload, oob) ==
  LET secondColonPos == indexOf(payload, ":")
  IN IF secondColonPos > 0
     THEN LET encoderIndex == toInt(substring(payload, 0, secondColonPos))
              volume == toFloat(substringFrom(payload, secondColonPos + 1))
          IN IF encoderIndex >= 0 /\ encoderIndex < numEncoders
             THEN LET detent == Round(volume * MAX_ENCODER_VALUE, FloatDen)
                      D1 == [D EXCEPT
                               !.encoders[encoderIndex].lastDetentPosition = detent,
                               !.encoders[encoderIndex].count =
                                  volumeToEncoderCount(ToVolume(detent))]
                  IN updateEncoderLedDisplay(D1, encoderIndex, oob)
             ELSE D
     ELSE D

\* handleSerialCommands, commandID == 'C'
handleColor(D, payload, oob) ==
  LET secondColonPos == indexOf(payload, ":")
      thirdColonPos == lastIndexOf(payload, ":")
  IN IF secondColonPos > 0 /\ thirdColonPos > secondColonPos
     THEN LET encoderIndex == toInt(substring(payload, 0, secondColonPos))
              zeroHex == substring(payload, secondColonPos + 1, thirdColonPos)
              fullHex == substringFrom(payload, thirdColonPos + 1)
          IN IF encoderIndex >= 0 /\ encoderIndex < numEncoders
             THEN updateEncoderLedDisplay(
                    [D EXCEPT !.encoders[encoderIndex].zeroColor = hexToColor(zeroHex),
                              !.encoders[encoderIndex].fullColor = hexToColor(fullHex)],
                    encoderIndex, oob)
             ELSE D
     ELSE D

\* handleSerialCommands, commandID == 'B'
handleBackground(D, payload) ==
  IF equalsIgnoreCase(payload, <<"r", "g", "b">>)
  THEN [D EXCEPT !.backgroundMode = BG_RGB]
  ELSE [D EXCEPT !.backgroundMode = BG_SOLID,
                 !.backgroundSolidColor = hexToColor(payload)]

\* the 'O' branch taking the payload as a 0-based index
handleOutput_ZeroBased(D, payload) ==
  LET requestedIndex == toInt(payload)
  IN IF requestedIndex >= 0 /\ requestedIndex < numButtons
     THEN applyOutputSelection(D, requestedIndex, FALSE)
     ELSE D

\* handleSerialCommands, commandID == 'O'
handleOutput(D, payload) ==
  LET requestedIndex == toInt(payload) - 1
  IN IF requestedIndex >= 0 /\ requestedIndex < numButtons
     THEN applyOutputSelection(D, requestedIndex, FALSE)
     ELSE D

\* the command ID the handler dispatches on
commandIdOf(buffer) == charAt0(buffer)

\* handleSerialCommands, the branch taken on '\n'
processLine(D, oob) ==
  LET colonPos == indexOf(D.serialBuffer, ":")
      commandID == commandIdOf(D.serialBuffer)
      payload == substringFrom(D.serialBuffer, colonPos + 1)
      D1 == IF colonPos > 0
            THEN CASE commandID = "V" -> handleVolume(D, payload, oob)
                   [] commandID = "C" -> handleColor(D, payload, oob)
                   [] commandID = "B" -> handleBackground(D, payload)
                   [] commandID = "O" -> handleOutput(D, payload)
                   [] OTHER -> D
            ELSE D
  IN [D1 EXCEPT !.serialBuffer = <<>>]

\* handleSerialCommands with a buffer local to the call: the bytes of an
\* unfinished line are dropped when the call returns
RECURSIVE handleSerialCommands_LocalBuffer(_, _, _)
handleSerialCommands_LocalBuffer(D, bytes, oob) ==
  LET nl == indexOf(bytes, "\n")
  IN IF nl < 0 THEN [D EXCEPT !.serialBuffer = <<>>]
     ELSE handleSerialCommands_LocalBuffer(
            processLine([D EXCEPT !.serialBuffer = @ \o SubSeq(bytes, 1, nl)], oob),
            SubSeq(bytes, nl + 2, Len(bytes)), oob)

\* handleSerialCommands: every available byte, in order; the bytes before a
\* '\n' are appended to the buffer, the '\n' runs the command
RECURSIVE handleSerialCommands(_, _, _)
handleSerialCommands(D, bytes, oob) ==
  LET nl == indexOf(bytes, "\n")
  IN IF nl < 0 THEN [D EXCEPT !.serialBuffer = @ \o bytes]
     ELSE handleSerialCommands(
            processLine([D EXCEPT !.serialBuffer = @ \o SubSeq(bytes, 1, nl)], oob),
            SubSeq(bytes, nl + 2, Len(bytes)), oob)

\* ------------------------------------------------------------------------
\* Background lighting
\* ------------------------------------------------------------------------
Wheel(WheelPos) ==
  LET w == 255 - WheelPos
  IN IF w < 85 THEN Color(255 - w * 3, 0, w * 3)
     ELSE IF w < 170 THEN Color(0, (w - 85) * 3, 255 - (w - 85) * 3)
     ELSE Color((w - 170) * 3, 255 - (w - 170) * 3, 0)

\* colour written to backlight LED i of the pass
BacklightColor(D, i) ==
  CASE D.backgroundMode = BG_RGB ->
         Wheel((TruncDiv(i * 256, BACKLIGHT_LED_COUNT) + D.rainbowHue) % 256)
    [] D.backgroundMode = BG_SOLID -> D.backgroundSolidColor
    [] OTHER -> BLACK

PaintBacklight(D) ==
  ledLoop(D, [i \in 0 .. (BACKLIGHT_LED_COUNT - 1) |-> BACKLIGHT_FIRST_LED + i],
          [i \in 0 .. (BACKLIGHT_LED_COUNT - 1) |-> BacklightColor(D, i)])

\* a phase kept in one byte: it wraps at 256
nextRainbowHue_Byte(hue) == IF hue + 1 >= 256 THEN 0 ELSE hue + 1

\* the rainbow phase after a pass in mode BG_RGB
nextRainbowHue(hue) == IF hue + 1 >= RAINBOW_PERIOD THEN 0 ELSE hue + 1

updateBackgroundLighting(D) ==
  LET painted == PaintBacklight(D)
  IN IF D.backgroundMode = BG_RGB
     THEN [painted EXCEPT !.rainbowHue = nextRainbowHue(D.rainbowHue)]
     ELSE painted

\* ------------------------------------------------------------------------
\* Telemetry
\* ------------------------------------------------------------------------
\* sendEncoderValues: the value of one channel
deejValue(e) ==
  LET valueToSend == IF e.isMuted THEN 0 ELSE e.lastDetentPosition
  IN map(valueToSend, 0, MAX_ENCODER_VALUE, 0, DEEJ_MAX)

RECURSIVE buildString(_, _)
buildString(encs, i) ==
  IF i >= numEncoders THEN <<>>
  ELSE IntToChars(deejValue(encs[i]))
         \o (IF i < numEncoders - 1 THEN <<"|">> ELSE <<>>)
         \o buildString(encs, i + 1)

sendEncoderValues(D) == [D EXCEPT !.out = Append(@, buildString(D.encoders, 0))]

\* ------------------------------------------------------------------------
\* setup() and loop()
\* ------------------------------------------------------------------------
BootBanner ==
  <<"=", "=", "=", " ", "d", "e", "e", "j", " ", "b", "o", "o", "t", " ",
    "(", "S", "e", "r", "i", "a", "l", " ", "9", "6", "0", "0", ")", " ",
    "=", "=", "=">>

\* setup(): every LED switched off
ClearAll(D) ==
  ledLoop(D, [i \in 0 .. (TOTAL_LEDS - 1) |-> i + 1],
          [i \in 0 .. (TOTAL_LEDS - 1) |-> BLACK])

RECURSIVE SetupEncoders(_, _)
SetupEncoders(D, i) ==
  IF i >= numEncoders THEN D
  ELSE SetupEncoders(
         updateEncoderLedDisplay([D EXCEPT !.encoders[i].count = 0], i, NoOob), i + 1)

setupBody(D) ==
  LET banner == [D EXCEPT !.out = <<BootBanner>>, !.wr = {}]
  IN applyOutputSelection(SetupEncoders(ClearAll(banner), 0), 0, TRUE)

\* the polling phase with the telemetry line sent before the serial handling
pollInputs_SendsFirst(D, ePins, bPins, millis) ==
  CHOOSE polled \in
    {sendEncoderValues(pollButtons(withMutes, 0, bPins, millis)) :
       withMutes \in
         {pollEncoderButtons(withDetents, 0, ePins, millis) :
            withDetents \in {pollEncoders([D EXCEPT !.out = <<>>, !.wr = {}], 0)}}} : TRUE

\* loop() up to the call of handleSerialCommands: the three polling loops one
\* after the other, each on the state the loop before it left
pollInputs(D, ePins, bPins, millis) ==
  CHOOSE polled \in
    {pollButtons(withMutes, 0, bPins, millis) :
       withMutes \in
         {pollEncoderButtons(withDetents, 0, ePins, millis) :
            withDetents \in {pollEncoders([D EXCEPT !.out = <<>>, !.wr = {}], 0)}}} : TRUE

\* loop() after handleSerialCommands
endOfLoop(D) == sendEncoderValues(updateBackgroundLighting([D EXCEPT !.wr = {}]))

InitEncoder ==
  [count |-> 0, lastDetentPosition |-> 0, isMuted |-> FALSE,
   lastButtonState |-> HIGH, lastDebounceTime |-> 0,
   zeroColor |-> DEFAULT_ZERO_COLOR, fullColor |-> DEFAULT_FULL_COLOR]

InitButton == [lastState |-> HIGH, lastDebounceTime |-> 0]

\* ------------------------------------------------------------------------
\* Host lines used as inputs
\* ------------------------------------------------------------------------
Line(text) == text \o <<"\n">>

V_0_050 == <<"V", ":", "0", ":", "0", ".", "5">>
V_0_100 == <<"V", ":", "0", ":", "1", ".", "0">>
V_0_0254 == <<"V", ":", "0", ":", "0", ".", "2", "5", "4">>
V_1_100 == <<"V", ":", "1", ":", "1", ".", "0">>
V_2_050 == <<"V", ":", "2", ":", "0", ".", "5">>
V_5_200 == <<"V", ":", "5", ":", "2", ".", "0">>
V_0_neg050 == <<"V", ":", "0", ":", "-", "0", ".", "5">>
V_6_050 == <<"V", ":", "6", ":", "0", ".", "5">>
V_neg1_050 == <<"V", ":", "-", "1", ":", "0", ".", "5">>
C_6_colors == <<"C", ":", "6", ":", "#", "F", "F", "0", "0", "0", "0", ":",
                "0", "0", "F", "F", "0", "0">>
C_2_colors == <<"C", ":", "2", ":", "#", "F", "F", "0", "0", "0", "0", ":",
                "0", "0", "F", "F", "0", "0">>
O_0 == <<"O", ":", "0">>
O_1 == <<"O", ":", "1">>
O_3 == <<"O", ":", "3">>
O_5 == <<"O", ":", "5">>
O_neg2 == <<"O", ":", "-", "2">>
B_rgb == <<"B", ":", "R", "g", "b">>
X_foo == <<"X", ":", "f", "o", "o">>
NoColon == <<"f", "o", "o">>
VX_0_050 == <<"V", "X", ":", "0", ":", "0", ".", "5">>

\* what the host asks with a chunk of lines: for each channel the detent
\* round(f * MAX_ENCODER_VALUE) of its V line with a valid channel and f in
\* [0.0, 1.0], if the chunk has one
ForcedBy(bytes) ==
  [i \in Channels |->
     CASE i = 0 /\ bytes = Line(V_0_050) -> {50}
       [] i = 0 /\ bytes = Line(V_0_100) -> {100}
       [] i = 0 /\ bytes = Line(V_0_0254) -> {25}
       [] i = 1 /\ bytes = Line(V_1_100) \o Line(V_2_050) -> {100}
       [] i = 2 /\ bytes = Line(V_1_100) \o Line(V_2_050) -> {50}
       [] OTHER -> {}]

\* ------------------------------------------------------------------------
\* Actions
\* ------------------------------------------------------------------------
Init ==
  /\ encoders = [i \in Channels |-> InitEncoder]
  /\ buttons = [i \in Buttons |-> InitButton]
  /\ selectedOutputIndex = -1
  /\ backgroundMode = BG_SOLID
  /\ backgroundSolidColor = DEFAULT_BACKGROUND_COLOR
  /\ rainbowHue = 0
  /\ serialBuffer = <<>>
  /\ led = [a \in LedAddrs |-> BLACK]
  /\ out = <<>>
  /\ wr = {}
  /\ rx = <<>>
  /\ encPin = [i \in Channels |-> HIGH]
  /\ btnPin = [i \in Buttons |-> HIGH]
  /\ now = 0
  /\ pc = "setup"
  /\ ticks = 0
  /\ envActed = FALSE
  /\ handled = <<>>
  /\ hostForced = [i \in Channels |-> {}]
  /\ changedWhileMuted = [i \in Channels |-> FALSE]
  /\ preMute = [i \in Channels |-> <<>>]
  /\ holds = [toggles |-> [i \in Channels |-> 0],
              released |-> [i \in Channels |-> TRUE],
              presses |-> [j \in Buttons |-> 0]]

\* the colours of the LED segment of channel i in the registers L
SegmentOf(L, i) ==
  [k \in 0 .. (ENCODER_LED_COUNT - 1) |->
     L[addressOf(ENCODER_START_LED[i + 1] + k)]]

\* the fields a render of a channel reads, besides the mute flag
RenderInputs(e) == <<e.lastDetentPosition, e.zeroColor, e.fullColor>>

\* history of detent changes made while the channel stays muted, of the
\* segment a channel showed when the press that muted it was accepted, kept
\* while it stays muted with the same detent and colour stops, and of the
\* mute toggles and accepted presses since the pin of a button was last
\* HIGH and the accepted releases since the last mute toggle
NoteMuted(D) ==
  /\ changedWhileMuted' =
       [i \in Channels |->
          \/ changedWhileMuted[i]
          \/ /\ encoders[i].isMuted
             /\ D.encoders[i].isMuted
             /\ D.encoders[i].lastDetentPosition # encoders[i].lastDetentPosition]
  /\ preMute' =
       [i \in Channels |->
          IF ~D.encoders[i].isMuted
             \/ RenderInputs(D.encoders[i]) # RenderInputs(encoders[i])
          THEN <<>>
          ELSE IF ~encoders[i].isMuted THEN <<SegmentOf(led, i)>>
          ELSE preMute[i]]
  /\ holds' =
       [toggles |->
          [i \in Channels |->
             holds.toggles[i]
               + (IF D.encoders[i].isMuted # encoders[i].isMuted THEN 1 ELSE 0)],
        released |->
          [i \in Channels |->
             IF D.encoders[i].isMuted # encoders[i].isMuted THEN FALSE
             ELSE IF encoders[i].lastButtonState = LOW
                     /\ D.encoders[i].lastButtonState = HIGH THEN TRUE
             ELSE holds.released[i]],
        presses |->
          [j \in Buttons |->
             holds.presses[j]
               + (IF buttons[j].lastState = HIGH /\ D.buttons[j].lastState = LOW
                  THEN 1 ELSE 0)]]

\* setup(): delay(50), then the bus and serial traffic, which takes busy ms
Setup(busy) ==
  /\ pc = "setup"
  /\ \E D \in {setupBody(Dev)} : Commit(D)
  /\ now' = now + SETUP_DELAY + busy
  /\ pc' = "poll"
  /\ UNCHANGED <<rx, encPin, btnPin, ticks, envActed, handled, hostForced,
                 changedWhileMuted, preMute, holds>>

\* the encoder interrupts move the driver count of channel i by d
Rotate(i, d, lim) ==
  /\ pc = "poll" /\ ~envActed /\ ticks < lim
  /\ encoders' = [encoders EXCEPT ![i].count = @ + d]
  /\ hostForced' = [hostForced EXCEPT ![i] = {}]
  /\ envActed' = TRUE
  /\ UNCHANGED <<buttons, selectedOutputIndex, backgroundMode, backgroundSolidColor,
                 rainbowHue, serialBuffer, led, out, wr, rx, encPin, btnPin, now,
                 pc, ticks, handled, changedWhileMuted, preMute, holds>>

\* the button of channel i is pressed or released
EncoderPinChange(i, lim) ==
  /\ pc = "poll" /\ ~envActed /\ ticks < lim
  /\ encPin' = [encPin EXCEPT ![i] = IF @ = HIGH THEN LOW ELSE HIGH]
  /\ holds' = IF encPin[i] = LOW THEN [holds EXCEPT !.toggles[i] = 0] ELSE holds
  /\ envActed' = TRUE
  /\ UNCHANGED <<devVars, rx, btnPin, now, pc, ticks, handled, hostForced,
                 changedWhileMuted, preMute>>

\* output button i is pressed or released
ButtonPinChange(i, lim) ==
  /\ pc = "poll" /\ ~envActed /\ ticks < lim
  /\ btnPin' = [btnPin EXCEPT ![i] = IF @ = HIGH THEN LOW ELSE HIGH]
  /\ holds' = IF btnPin[i] = LOW THEN [holds EXCEPT !.presses[i] = 0] ELSE holds
  /\ envActed' = TRUE
  /\ UNCHANGED <<devVars, rx, encPin, now, pc, ticks, handled, hostForced,
                 changedWhileMuted, preMute>>

\* the host sends bytes
SerialArrive(bytes, lim) ==
  /\ pc = "poll" /\ ~envActed /\ ticks < lim
  /\ rx' = rx \o bytes
  /\ envActed' = TRUE
  /\ UNCHANGED <<devVars, encPin, btnPin, now, pc, ticks, handled, hostForced,
                 changedWhileMuted, preMute, holds>>

PollInputs(lim) ==
  /\ pc = "poll" /\ ticks < lim
  /\ \E D \in {pollInputs(Dev, encPin, btnPin, now)} : Commit(D) /\ NoteMuted(D)
  /\ pc' = "serial"
  /\ UNCHANGED <<rx, encPin, btnPin, now, ticks, envActed, handled, hostForced>>

HandleSerial(oobs) ==
  /\ pc = "serial"
  /\ \E oob \in oobs :
       \E D \in {handleSerialCommands([Dev EXCEPT !.wr = {}], rx, oob)} :
         /\ Commit(D)
         /\ NoteMuted(D)
         /\ hostForced' =
              [i \in Channels |->
                 IF serialBuffer = <<>> /\ ForcedBy(rx)[i] # {}
                 THEN ForcedBy(rx)[i]
                 ELSE IF D.encoders[i].lastDetentPosition
                           # encoders[i].lastDetentPosition
                      THEN {} ELSE hostForced[i]]
  /\ rx' = <<>>
  /\ handled' = rx
  /\ pc' = "end"
  /\ UNCHANGED <<encPin, btnPin, now, ticks, envActed>>

\* the rest of the pass; it takes delay(10) and busy ms more
EndTick(busy) ==
  /\ pc = "end"
  /\ \E D \in {endOfLoop(Dev)} : Commit(D)
  /\ now' = now + LOOP_DELAY + busy
  /\ ticks' = ticks + 1
  /\ envActed' = FALSE
  /\ pc' = "poll"
  /\ UNCHANGED <<rx, encPin, btnPin, handled, hostForced, changedWhileMuted,
                 preMute, holds>>

\* ------------------------------------------------------------------------
\* Specifications
\* ------------------------------------------------------------------------
\* bounds: passes of loop() explored
MaxTicks == 2
ChannelTicks == 4

\* longest time the bus and serial traffic of a pass takes, in ms; a pass
\* takes that long or no time beyond its delay(10)
BusyMs == 50

\* outcomes of the undefined reads and conversions of a render that lights
\* more than ENCODER_LED_COUNT LEDs: for channel 5 the wiring order read gives
\* a LED of its own segment (5), the LED of an output button (11), a LED of
\* the segment of channel 1 (-39) or no LED at all (100)
OobOutcomes ==
  {[idx |-> 5, byte |-> 0], [idx |-> 11, byte |-> 251], [idx |-> -39, byte |-> 251],
   [idx |-> 100, byte |-> 0]}

HostChunks ==
  {Line(V_0_050), Line(V_1_100) \o Line(V_2_050), Line(V_5_200), Line(V_0_neg050),
   Line(V_6_050), Line(V_neg1_050), Line(C_6_colors), Line(C_2_colors),
   Line(O_0), Line(O_1), Line(O_3), Line(O_5), Line(O_neg2), Line(B_rgb),
   Line(X_foo), Line(NoColon), Line(VX_0_050)}

\* the whole device: every kind of input, a short horizon
Next ==
  \/ Setup(BusyMs)
  \/ \E d \in {-1, 1} : Rotate(0, d, MaxTicks)
  \/ EncoderPinChange(1, MaxTicks)
  \/ \E j \in {0, 2} : ButtonPinChange(j, MaxTicks)
  \/ \E c \in HostChunks : SerialArrive(c, MaxTicks)
  \/ PollInputs(MaxTicks)
  \/ HandleSerial(OobOutcomes)
  \/ \E busy \in {0, BusyMs} : EndTick(busy)

Spec == Init /\ [][Next]_vars

\* one channel: its encoder, its button and the V lines addressed to it,
\* over a longer horizon
ChannelChunks == {Line(V_0_050), Line(V_0_100), Line(V_0_0254)}

NextChannel ==
  \/ Setup(BusyMs)
  \/ \E d \in {-1, 3} : Rotate(0, d, ChannelTicks)
  \/ EncoderPinChange(0, ChannelTicks)
  \/ \E c \in ChannelChunks : SerialArrive(c, ChannelTicks)
  \/ PollInputs(ChannelTicks)
  \/ HandleSerial({NoOob})
  \/ \E busy \in {0, BusyMs} : EndTick(busy)

SpecChannel == Init /\ [][NextChannel]_vars

\* the buttons alone: the button of channel 0 and two output buttons, pressed
\* and released over passes of 10 ms or 10 + BusyMs ms
ButtonTicks == 4

NextButtons ==
  \/ Setup(BusyMs)
  \/ EncoderPinChange(0, ButtonTicks)
  \/ \E j \in {0, 2} : ButtonPinChange(j, ButtonTicks)
  \/ PollInputs(ButtonTicks)
  \/ HandleSerial({NoOob})
  \/ \E busy \in {0, BusyMs} : EndTick(busy)

SpecButtons == Init /\ [][NextButtons]_vars

\* the serial line alone: 'V:0:0.5' split in three, two lines in one chunk in
\* either order, and a line followed by the start of the next
LineTicks == 3

V_0_050_a == <<"V", ":", "0">>
V_0_050_b == <<":", "0", ".">>
V_0_050_c == <<"5", "\n">>

LineChunks ==
  {V_0_050_a, V_0_050_b, V_0_050_c, Line(O_3) \o Line(O_1), Line(O_1) \o Line(O_3),
   Line(V_0_100) \o V_0_050_a}

NextLines ==
  \/ Setup(BusyMs)
  \/ \E c \in LineChunks : SerialArrive(c, LineTicks)
  \/ PollInputs(LineTicks)
  \/ HandleSerial({NoOob})
  \/ EndTick(0)

SpecLines == Init /\ [][NextLines]_vars

\* the backlight alone: 'B:Rgb' in one of the first passes, then idle passes
\* until the rainbow phase has gone round once
RainbowTicks == 1282

NextRainbow ==
  \/ Setup(BusyMs)
  \/ SerialArrive(Line(B_rgb), MaxTicks)
  \/ PollInputs(RainbowTicks)
  \/ HandleSerial({NoOob})
  \/ EndTick(0)

SpecRainbow == Init /\ [][NextRainbow]_vars

\* the render alone: one channel is given a detent in 0 .. MAX_ENCODER_VALUE,
\* a mute flag and a pair of colour stops, then a channel is rendered on the
\* registers as they are at power-on
RenderStops ==
  {<<DEFAULT_ZERO_COLOR, DEFAULT_FULL_COLOR>>, <<Color(255, 0, 0), Color(0, 0, 255)>>,
   <<Color(1, 0, 0), Color(0, 1, 0)>>}

InitRender ==
  /\ \E ch \in Channels, detent \in 0 .. MAX_ENCODER_VALUE, muted \in BOOLEAN,
        stops \in RenderStops :
       encoders =
         [i \in Channels |->
            IF i = ch
            THEN [InitEncoder EXCEPT !.lastDetentPosition = detent,
                                     !.count = volumeToEncoderCount(ToVolume(detent)),
                                     !.isMuted = muted,
                                     !.zeroColor = stops[1], !.fullColor = stops[2]]
            ELSE InitEncoder]
  /\ buttons = [i \in Buttons |-> InitButton]
  /\ selectedOutputIndex = -1
  /\ backgroundMode = BG_SOLID
  /\ backgroundSolidColor = DEFAULT_BACKGROUND_COLOR
  /\ rainbowHue = 0
  /\ serialBuffer = <<>>
  /\ led = [a \in LedAddrs |-> BLACK]
  /\ out = <<>>
  /\ wr = {}
  /\ rx = <<>>
  /\ encPin = [i \in Channels |-> HIGH]
  /\ btnPin = [i \in Buttons |-> HIGH]
  /\ now = 0
  /\ pc = "render"
  /\ ticks = 0
  /\ envActed = FALSE
  /\ handled = <<>>
  /\ hostForced = [i \in Channels |-> {}]
  /\ changedWhileMuted = [i \in Channels |-> FALSE]
  /\ preMute = [i \in Channels |-> <<>>]
  /\ holds = [toggles |-> [i \in Channels |-> 0],
              released |-> [i \in Channels |-> TRUE],
              presses |-> [j \in Buttons |-> 0]]

\* one call updateEncoderLedDisplay(i)
RenderChannel(i) ==
  /\ pc = "render"
  /\ \E D \in {updateEncoderLedDisplay([Dev EXCEPT !.wr = {}], i, NoOob)} : Commit(D)
  /\ pc' = "rendered"
  /\ UNCHANGED <<rx, encPin, btnPin, now, ticks, envActed, handled, hostForced,
                 changedWhileMuted, preMute, holds>>

NextRender == \E i \in Channels : RenderChannel(i)

SpecRender == InitRender /\ [][NextRender]_vars

\* ------------------------------------------------------------------------
\* Reading the serial output and the steps
\* ------------------------------------------------------------------------
SetupStep == pc = "setup" /\ pc' = "poll"
PollStep == pc = "poll" /\ pc' = "serial"
SerialStep == pc = "serial" /\ pc' = "end"
EndStep == pc = "end" /\ pc' = "poll"
RenderStep == pc = "render" /\ pc' = "rendered"

\* the debounced inputs with a control loop that keeps running: the button of
\* channel 0 and output button 0 change at any time during the first
\* PressTicks passes of LiveTicks; setup() returns and loop() is called again whenever it
\* returns, so each phase that can be taken is taken. A phase is a step that
\* moves pc, which makes the fairness on the steps of pc the fairness on
\* Setup, PollInputs, HandleSerial and EndTick.
LiveTicks == 8
PressTicks == 3

NextLive ==
  \/ Setup(BusyMs)
  \/ EncoderPinChange(0, PressTicks)
  \/ ButtonPinChange(0, PressTicks)
  \/ PollInputs(LiveTicks)
  \/ HandleSerial({NoOob})
  \/ \E busy \in {0, BusyMs} : EndTick(busy)

SpecLive ==
  /\ Init
  /\ [][NextLive]_vars
  /\ WF_pc(SetupStep)
  /\ WF_pc(PollStep /\ ticks < LiveTicks)
  /\ WF_pc(SerialStep)
  /\ WF_pc(EndStep)


\* a telemetry line starts with a number
IsTelemetry(line) == Len(line) > 0 /\ (IsDigit(line[1]) \/ line[1] = "-")
IsONote(line) == Len(line) > 0 /\ line[1] = "O"

\* the fields of a line, separated by '|'
RECURSIVE Fields(_)
Fields(line) ==
  LET bar == indexOf(line, "|")
  IN IF bar < 0 THEN <<line>>
     ELSE <<SubSeq(line, 1, bar)>> \o Fields(SubSeq(line, bar + 2, Len(line)))

FieldValues(line) == [k \in 1 .. Len(Fields(line)) |-> toInt(Fields(line)[k])]

LastLine(lines) == lines[Len(lines)]

\* a detent rescaled from 0..MAX_ENCODER_VALUE to 0..1023, the quotient
\* truncated toward zero
Scaled(detent) ==
  IF detent >= 0 THEN (detent * 1023) \div 100 ELSE -(((-detent) * 1023) \div 100)

ReportedValue(e) == IF e.isMuted THEN 0 ELSE Scaled(e.lastDetentPosition)

ONote(n) == <<"O", ":", DecDigits[n + 1]>>

\* ------------------------------------------------------------------------
\* Claims
\* ------------------------------------------------------------------------

\* C1: every per-channel value of every telemetry line the device emits is an
\* integer in 0..1023, whatever ticks, encoder movements, presses and host
\* lines came before.
C1_TelemetryInRange ==
  \A k \in 1 .. Len(out) :
    IsTelemetry(out[k]) =>
      \A f \in 1 .. Len(Fields(out[k])) : FieldValues(out[k])[f] \in 0 .. 1023

\* C2: in every reachable state the stored detent value of every channel lies
\* in 0..MAX_ENCODER_VALUE.
C2_DetentInRange ==
  \A i \in Channels : encoders[i].lastDetentPosition \in 0 .. MAX_ENCODER_VALUE

\* the 'O:<n>' lines a polling phase must print: one for each accepted press,
\* in button order, that changes the selection it finds
RECURSIVE ExpectedNotes(_, _, _)
ExpectedNotes(sel, pressed, j) ==
  IF j >= numButtons THEN <<>>
  ELSE IF j \in pressed
       THEN (IF j # sel THEN <<ONote(j + 1)>> ELSE <<>>)
              \o ExpectedNotes(j, pressed, j + 1)
       ELSE ExpectedNotes(sel, pressed, j + 1)

\* C3: an 'O:<n>' line (n the 1-based new selection) is printed exactly when a
\* selection asked with notification (startup, an accepted press of an output
\* button) changes the selected index; a press of the active output prints
\* nothing, and the serial handler never prints one.
C3_NotifyExactlyOnChange ==
  [][/\ SetupStep =>
          SelectSeq(out', IsONote) =
            IF selectedOutputIndex' # selectedOutputIndex
            THEN <<ONote(selectedOutputIndex' + 1)>> ELSE <<>>
     /\ PollStep =>
          LET pressed == {j \in Buttons : buttons[j].lastState = HIGH
                                          /\ buttons'[j].lastState = LOW}
          IN SelectSeq(out', IsONote) = ExpectedNotes(selectedOutputIndex, pressed, 0)
     /\ (SerialStep \/ EndStep) => SelectSeq(out', IsONote) = SelectSeq(out, IsONote)
     /\ pc' = pc => out' = out]_vars

\* C3 witness: an accepted press of output button 2 changed the selection from
\* 0 to 2 and 'O:3' was printed.
C3_Witness ==
  /\ pc = "serial"
  /\ buttons[2].lastState = LOW
  /\ selectedOutputIndex = 2
  /\ out = <<ONote(3)>>

C5_ForcedVolumePersists ==
  \A i \in Channels :
    \A detent \in hostForced[i] :
      /\ encoders[i].lastDetentPosition = detent
      /\ encoders[i].count = -2 * detent

\* C5 witness: 'V:0:0.5' was handled in an earlier pass, no byte arrived for
\* this pass, and its encoder update has left the detent at 50.
C5_Witness ==
  /\ pc = "serial"
  /\ rx = <<>>
  /\ handled = Line(V_0_050)
  /\ hostForced[0] = {50}
  /\ encoders[0].lastDetentPosition = 50

\* C6: every pass of loop() prints exactly one telemetry line, after the input
\* polling and the serial handling of the pass, so that it shows the state
\* the commands of the pass left.
C6_OneTelemetryPerTick ==
  /\ pc \in {"serial", "end"} => \A k \in 1 .. Len(out) : ~IsTelemetry(out[k])
  /\ (pc = "poll" /\ ticks > 0) =>
       /\ Len(out) > 0
       /\ IsTelemetry(LastLine(out))
       /\ \A k \in 1 .. (Len(out) - 1) : ~IsTelemetry(out[k])
       /\ FieldValues(LastLine(out)) =
            [k \in 1 .. numEncoders |-> ReportedValue(encoders[k - 1])]

\* C6 witness: the first pass read 'V:0:0.5' and its telemetry line already
\* reports channel 0 at 511.
C6_Witness ==
  /\ pc = "poll"
  /\ ticks = 1
  /\ handled = Line(V_0_050)
  /\ FieldValues(LastLine(out))[1] = 511

\* the example of the telemetry contract: detents [0,100,50,0,0,0], channel 1
\* muted and no other
ExampleState ==
  /\ [i \in Channels |-> encoders[i].lastDetentPosition]
       = [i \in Channels |-> CASE i = 1 -> 100 [] i = 2 -> 50 [] OTHER -> 0]
  /\ \A i \in Channels : encoders[i].isMuted <=> i = 1

\* C7 as stated: a muted channel reports 0, and with detents [0,100,50,0,0,0]
\* and channel 1 muted the line is '0|0|512|0|0|0'.
C7_Original ==
  (pc = "poll" /\ ticks > 0) =>
    /\ \A i \in Channels :
         encoders[i].isMuted => FieldValues(LastLine(out))[i + 1] = 0
    /\ ExampleState =>
         LastLine(out) = <<"0", "|", "0", "|", "5", "1", "2", "|", "0", "|", "0", "|", "0">>

\* C7 amended: the telemetry value of a channel is 0 when it is muted and
\* otherwise detent * 1023 / 100 with the quotient truncated, one value per
\* channel in channel order separated by '|'; with detents [0,100,50,0,0,0]
\* and channel 1 muted the line is '0|0|511|0|0|0'.
C7_TelemetryValues ==
  (pc = "poll" /\ ticks > 0) =>
    /\ FieldValues(LastLine(out)) =
         [k \in 1 .. numEncoders |-> ReportedValue(encoders[k - 1])]
    /\ ExampleState =>
         LastLine(out) = <<"0", "|", "0", "|", "5", "1", "1", "|", "0", "|", "0", "|", "0">>

\* C7 witness: the example state after a pass, with the line it printed.
C7_Witness ==
  /\ pc = "poll"
  /\ ticks > 0
  /\ ExampleState
  /\ LastLine(out) = <<"0", "|", "0", "|", "5", "1", "1", "|", "0", "|", "0", "|", "0">>

\* the bytes are one complete line, read into an empty buffer
OneLine(bytes) ==
  /\ serialBuffer = <<>>
  /\ Len(bytes) > 0
  /\ bytes[Len(bytes)] = "\n"
  /\ \A k \in 1 .. (Len(bytes) - 1) : bytes[k] # "\n"

\* the text before the first colon of a line
CommandIdText(text) ==
  SubSeq(text, 1, (CHOOSE k \in 1 .. Len(text) :
                     text[k] = ":" /\ \A j \in 1 .. (k - 1) : text[j] # ":") - 1)

\* a line without colon, or whose command ID is not exactly V, C, B or O
Malformed(text) ==
  \/ \A k \in 1 .. Len(text) : text[k] # ":"
  \/ CommandIdText(text) \notin {<<"V">>, <<"C">>, <<"B">>, <<"O">>}

\* the serial handling changed no channel, background or selection state,
\* wrote no LED and printed nothing
NoEffect ==
  /\ encoders' = encoders
  /\ buttons' = buttons
  /\ selectedOutputIndex' = selectedOutputIndex
  /\ backgroundMode' = backgroundMode
  /\ backgroundSolidColor' = backgroundSolidColor
  /\ rainbowHue' = rainbowHue
  /\ led' = led
  /\ wr' = {}
  /\ out' = out

\* C8: a line without colon, or whose command ID is not exactly one of V, C,
\* B, O, has no effect, and after a newline is read the buffer is empty.
C8_MalformedIgnored ==
  [][SerialStep =>
       /\ (OneLine(rx) /\ Malformed(SubSeq(rx, 1, Len(rx) - 1))) => NoEffect
       /\ (Len(rx) > 0 /\ rx[Len(rx)] = "\n") => serialBuffer' = <<>>]_vars

\* the lines whose index is out of range: channel 6 and -1, output 0, 5, -2
OutOfRangeChunks ==
  {Line(V_6_050), Line(V_neg1_050), Line(C_6_colors), Line(O_0), Line(O_5),
   Line(O_neg2)}

\* C9: a V or C line whose channel index is outside 0..numEncoders-1, and an O
\* line whose index is outside 1..numButtons, has no effect.
C9_OutOfRangeIgnored ==
  [][(SerialStep /\ OneLine(rx) /\ rx \in OutOfRangeChunks) => NoEffect]_vars

\* C9 witness: the serial handler has read 'O:0' (or another of the lines).
C9_Witness ==
  /\ pc = "end"
  /\ handled \in OutOfRangeChunks
  /\ serialBuffer = <<>>

\* the detent and the raw count an encoder update must leave for a count
ExpectedClamped(count) == constrain(-count, 0, 2 * MAX_ENCODER_VALUE)
ExpectedDetent(count) == (ExpectedClamped(count) + 1) \div 2
ExpectedCount(count) == -ExpectedClamped(count)

\* C10: muting only masks the reported value: the encoder update and the V
\* lines set the detent and the raw count of a muted channel as of any
\* other, a muted channel reports 0 and an unmuted one its current detent.
C10_MuteOnlyMasks ==
  [][/\ PollStep =>
          \A i \in Channels :
            /\ encoders'[i].lastDetentPosition = ExpectedDetent(encoders[i].count)
            /\ encoders'[i].count = ExpectedCount(encoders[i].count)
     /\ (SerialStep /\ OneLine(rx)) =>
          \A i \in Channels :
            \A detent \in ForcedBy(rx)[i] :
              /\ encoders'[i].lastDetentPosition = detent
              /\ encoders'[i].count = -2 * detent
     /\ EndStep =>
          \A i \in Channels :
            FieldValues(LastLine(out'))[i + 1] =
              IF encoders[i].isMuted THEN 0 ELSE Scaled(encoders[i].lastDetentPosition)]_vars

\* C10 witness: the detent of channel 0 changed while it was muted, the
\* channel is unmuted again and the last line reports its current detent.
C10_Witness ==
  /\ pc = "poll"
  /\ ticks > 0
  /\ changedWhileMuted[0]
  /\ ~encoders[0].isMuted
  /\ encoders[0].lastDetentPosition > 0
  /\ FieldValues(LastLine(out))[1] = Scaled(encoders[0].lastDetentPosition)

DebounceRule(state, time, state2, time2, reading) ==
  LET mayAccept == reading # state /\ now - time > DEBOUNCE_DELAY
  IN /\ PollStep /\ mayAccept =>
          /\ state2 = reading
          /\ state2 # state
          /\ time2 = now
          /\ time2 - time > DEBOUNCE_DELAY
     /\ ~(PollStep /\ mayAccept) => (state2 = state /\ time2 = time)

\* C12: each debounced input on its own: a polled reading becomes the
\* accepted state only if it differs from it and more than 50 ms have passed
\* since the last accepted transition; accepted states alternate, two
\* consecutive accepted transitions are more than 50 ms apart, and a rejected
\* reading changes neither the accepted state nor the timestamp.
C12_Debounce ==
  [][/\ \A i \in Channels :
          DebounceRule(encoders[i].lastButtonState, encoders[i].lastDebounceTime,
                       encoders'[i].lastButtonState, encoders'[i].lastDebounceTime,
                       encPin[i])
     /\ \A j \in Buttons :
          DebounceRule(buttons[j].lastState, buttons[j].lastDebounceTime,
                       buttons'[j].lastState, buttons'[j].lastDebounceTime,
                       btnPin[j])]_vars

\* C12 witness: the press of the button of channel 1 was accepted, and the
\* release polled 10 ms later has just been rejected.
C12_Witness ==
  /\ pc = "serial"
  /\ encoders[1].lastButtonState = LOW
  /\ encPin[1] = HIGH
  /\ encoders[1].lastDebounceTime > 0
  /\ now - encoders[1].lastDebounceTime = LOOP_DELAY

\* the output buttons whose press the polling phase of this step accepts
PressedButtons ==
  {j \in Buttons : buttons[j].lastState = HIGH /\ buttons'[j].lastState = LOW}

\* C13: mute toggles and selections made by the output buttons happen only
\* on an accepted transition to LOW: an accepted release changes no mute flag
\* and no selection, a button held down toggles (or selects) at most once, and
\* between two mute toggles of a channel its button has an accepted release.
C13_PressEdgeOnly ==
  [][/\ \A i \in Channels :
          LET pressed == /\ PollStep
                         /\ encoders[i].lastButtonState = HIGH
                         /\ encoders'[i].lastButtonState = LOW
          IN /\ encoders'[i].isMuted =
                  (IF pressed THEN ~encoders[i].isMuted ELSE encoders[i].isMuted)
             /\ encoders'[i].isMuted # encoders[i].isMuted => holds.released[i]
             /\ holds'.toggles[i] <= 1
     /\ PollStep =>
          selectedOutputIndex' =
            IF PressedButtons = {} THEN selectedOutputIndex
            ELSE CHOOSE j \in PressedButtons : \A k \in PressedButtons : k <= j
     /\ ~(PollStep \/ SerialStep \/ SetupStep) =>
          selectedOutputIndex' = selectedOutputIndex
     /\ \A j \in Buttons : holds'.presses[j] <= 1]_vars

\* C13 witness: channel 0 was muted by a press, its button was released, and
\* a second press has just been accepted and unmuted it.
C13_Witness ==
  /\ pc = "serial"
  /\ ticks >= 2
  /\ ~encoders[0].isMuted
  /\ encoders[0].lastButtonState = LOW
  /\ encoders[0].lastDebounceTime = now
  /\ holds.toggles[0] = 1
  /\ ~holds.released[0]

\* the volume the encoder update computes from a driver count, in units of
\* 1 / KDen, and the limits of the volume in the same units
VolumeOf(count) == encoderCountToVolume(getRawCount(count))
InLimits(volume) == volume >= 0 /\ volume <= MAX_ENCODER_VALUE * KDen

\* C14: an encoder update that finds the requested volume outside
\* [0, MAX_ENCODER_VALUE] writes back the raw position of the clamped volume,
\* so that the volume recomputed from it is the clamped volume; turning past
\* a limit never accumulates, and a position inside the limits is taken as
\* it is, so the first step back changes the volume at once.
C14_ClampWriteBack ==
  [][/\ PollStep =>
          \A i \in Channels :
            LET requested == VolumeOf(encoders[i].count)
                clamped == IF requested < 0 THEN 0
                           ELSE IF requested > MAX_ENCODER_VALUE * KDen
                                THEN MAX_ENCODER_VALUE * KDen
                           ELSE requested
            IN /\ VolumeOf(encoders'[i].count) = clamped
               /\ InLimits(requested) => encoders'[i].count = encoders[i].count
               /\ encoders'[i].lastDetentPosition * KDen \in
                    {clamped - 1, clamped, clamped + 1}
     /\ \A i \in Channels :
          (pc' # "poll" \/ ~envActed') => InLimits(VolumeOf(encoders'[i].count))]_vars

\* C14 witness: after 'V:0:1.0' the encoder was turned one step further up and
\* the encoder update has written the position of volume 100 back.
C14_Witness ==
  /\ pc = "serial"
  /\ handled = Line(V_0_100)
  /\ hostForced[0] = {}
  /\ encoders[0].count = -2 * MAX_ENCODER_VALUE
  /\ encoders[0].lastDetentPosition = MAX_ENCODER_VALUE

\* C15: the serial handler is line-buffered across passes: bytes without a
\* newline only extend the line buffer; when the newline is read the command
\* takes effect once, with the state the whole line read in one pass gives;
\* the complete lines of one pass are all processed, in arrival order.
C15_LineBuffered ==
  [][SerialStep =>
       LET whole == serialBuffer \o rx
           inOnePass == handleSerialCommands(
                          [Dev EXCEPT !.serialBuffer = <<>>, !.wr = {}], whole, NoOob)
       IN /\ (\A k \in 1 .. Len(rx) : rx[k] # "\n") =>
               (NoEffect /\ serialBuffer' = whole)
          /\ encoders' = inOnePass.encoders
          /\ selectedOutputIndex' = inOnePass.selectedOutputIndex
          /\ led' = inOnePass.led
          /\ serialBuffer' = inOnePass.serialBuffer
          /\ whole = Line(V_0_050) =>
               /\ encoders'[0].lastDetentPosition = 50
               /\ encoders'[0].count = -100
               /\ serialBuffer' = <<>>
          /\ whole = Line(V_0_100) \o V_0_050_a =>
               /\ encoders'[0].lastDetentPosition = 100
               /\ serialBuffer' = V_0_050_a
          /\ whole = Line(O_3) \o Line(O_1) => selectedOutputIndex' = 0
          /\ whole = Line(O_1) \o Line(O_3) => selectedOutputIndex' = 2]_vars

\* C15 witness: 'V:0:0.5' arrived in three parts over three passes; the third
\* pass read the newline and channel 0 is at detent 50.
C15_Witness ==
  /\ pc = "end"
  /\ ticks = 2
  /\ handled = V_0_050_c
  /\ serialBuffer = <<>>
  /\ encoders[0].lastDetentPosition = 50
  /\ encoders[0].count = -100

\* the colours of the backlight LEDs in the registers L
BacklightOf(L) ==
  [i \in 0 .. (BACKLIGHT_LED_COUNT - 1) |-> L[AddressTable[BACKLIGHT_FIRST_LED + i]]]

\* C16: the rainbow phase is always in 0 .. 1279; the end of a pass in rainbow
\* mode advances it by one, from 1279 to 0, the end of a pass in another mode
\* and every other step leave it unchanged; 'B:Rgb' selects the rainbow mode
\* and from then on the backlight written by a pass differs from the one the
\* pass before wrote.
C16_RainbowPhase ==
  [][/\ rainbowHue \in 0 .. (5 * 256 - 1)
     /\ rainbowHue' \in 0 .. (5 * 256 - 1)
     /\ (EndStep /\ backgroundMode = BG_RGB) =>
          /\ rainbowHue' = (IF rainbowHue = 5 * 256 - 1 THEN 0 ELSE rainbowHue + 1)
          /\ BacklightOf(led') # BacklightOf(led)
     /\ (EndStep /\ backgroundMode # BG_RGB) => rainbowHue' = rainbowHue
     /\ ~EndStep => rainbowHue' = rainbowHue
     /\ (SerialStep /\ serialBuffer = <<>> /\ rx = Line(B_rgb)) =>
          backgroundMode' = BG_RGB]_vars

\* C16 witness: in rainbow mode the phase has gone round and is 0 again.
C16_Witness ==
  /\ pc = "poll"
  /\ backgroundMode = BG_RGB
  /\ rainbowHue = 0
  /\ ticks >= 5 * 256

\* the LEDs of the segment of channel i that are not off in the registers L
NonOff(L, i) == {k \in 0 .. (ENCODER_LED_COUNT - 1) : SegmentOf(L, i)[k] # BLACK}

\* C17: the lit count of a render is the detent divided by 10, rounded; it
\* is 0 at detent 0, 10 at detent 100 and never smaller for a larger detent;
\* the wiring order of the channel is a permutation of 1 .. 10, and when
\* every colour the render writes is not black, exactly that many LEDs of
\* the segment are not off after the render.
C17_LitCount ==
  [][\A i \in Channels :
       (RenderStep /\ ENCODER_START_LED[i + 1] \in wr') =>
         LET e == encoders[i]
             litCount == LedsToLight(e.lastDetentPosition)
         IN /\ litCount = (e.lastDetentPosition + 5) \div 10
            /\ litCount \in 0 .. 10
            /\ e.lastDetentPosition = 0 => litCount = 0
            /\ e.lastDetentPosition = 100 => litCount = 10
            /\ \A larger \in e.lastDetentPosition .. 100 : LedsToLight(larger) >= litCount
            /\ {ENCODER_LED_ORDER[i + 1][k] : k \in 1 .. 10} = 1 .. 10
            /\ (\A k \in 0 .. (litCount - 1) :
                  SegmentColor(e, k, litCount, NoOob) # BLACK)
                 => Cardinality(NonOff(led', i)) = litCount]_vars

\* C17 witness: channel 1 at detent 85 was rendered with the default colour
\* stops and 9 LEDs of its segment are lit, the one wired last (9) is off.
C17_Witness ==
  /\ pc = "rendered"
  /\ encoders[1].lastDetentPosition = 85
  /\ ~encoders[1].isMuted
  /\ encoders[1].zeroColor = DEFAULT_ZERO_COLOR
  /\ Cardinality(NonOff(led, 1)) = 9
  /\ SegmentOf(led, 1)[8] = BLACK

SegmentLeds(i) ==
  {ENCODER_START_LED[i + 1] + k : k \in 0 .. (ENCODER_LED_COUNT - 1)}

\* C19: the lit count of every channel is within 0 .. 10, and the renders of
\* a pass of the serial handler that selects no output write only LEDs of
\* the segments of the channels they render (a rendered channel has its
\* whole segment written, by the clearing loop).
C19_RenderBounds ==
  [][/\ \A i \in Channels :
          LedsToLight(encoders'[i].lastDetentPosition) \in 0 .. ENCODER_LED_COUNT
     /\ (SerialStep /\ \A k \in 1 .. Len(rx) : rx[k] # "O") =>
          \A n \in wr' :
            \E i \in Channels : n \in SegmentLeds(i) /\ SegmentLeds(i) \subseteq wr']_vars

\* the passes in which a reading that differs from the accepted state is
\* accepted at the latest: the polls of a window of DEBOUNCE_DELAY ms are
\* LOOP_DELAY ms apart or more
WindowPasses == DEBOUNCE_DELAY \div LOOP_DELAY + 1

\* the passes of the control loop that are left are enough for a window
LoopKeepsTicking == ticks + WindowPasses <= LiveTicks

\* C20: while the control loop keeps running, a reading that differs from the
\* accepted state of its input is accepted unless the pin changes back, at
\* the first poll more than 50 ms after the last accepted transition; a
\* press polled inside the window of the accepted release before it and held
\* toggles the mute flag, or selects the output, and does so once. The
\* inputs that change are the button of channel 0 and output button 0.
C20_DebounceLive ==
  /\ \A i \in {0} :
       /\ (LoopKeepsTicking /\ encPin[i] # encoders[i].lastButtonState)
            ~> (encoders[i].lastButtonState = encPin[i])
       /\ (LoopKeepsTicking /\ encPin[i] = LOW /\ encoders[i].lastButtonState = HIGH
             /\ encoders[i].lastDebounceTime > 0
             /\ now - encoders[i].lastDebounceTime <= DEBOUNCE_DELAY)
            ~> (encPin[i] = HIGH \/ (holds.toggles[i] = 1 /\ encoders[i].lastDebounceTime = now))
  /\ \A j \in {0} :
       /\ (LoopKeepsTicking /\ btnPin[j] # buttons[j].lastState)
            ~> (buttons[j].lastState = btnPin[j])
       /\ (LoopKeepsTicking /\ btnPin[j] = LOW /\ buttons[j].lastState = HIGH
             /\ buttons[j].lastDebounceTime > 0
             /\ now - buttons[j].lastDebounceTime <= DEBOUNCE_DELAY)
            ~> (btnPin[j] = HIGH
                  \/ (holds.presses[j] = 1 /\ selectedOutputIndex = j
                        /\ buttons[j].lastDebounceTime = now))
  /\ [][/\ \A i \in Channels :
             /\ (PollStep /\ encPin[i] # encoders[i].lastButtonState
                   /\ now - encoders[i].lastDebounceTime > 50)
                  => encoders'[i].lastButtonState = encPin[i]
             /\ holds'.toggles[i] <= 1
        /\ \A j \in Buttons :
             /\ (PollStep /\ btnPin[j] # buttons[j].lastState
                   /\ now - buttons[j].lastDebounceTime > 50)
                  => buttons'[j].lastState = btnPin[j]
             /\ holds'.presses[j] <= 1]_vars

\* C20 witness: the release of the button of channel 0 was accepted, the next
\* press fell inside its window and the poll has just rejected it, with
\* enough passes of the loop left for the window to end.
C20_Witness ==
  /\ pc = "serial"
  /\ LoopKeepsTicking
  /\ encPin[0] = LOW
  /\ encoders[0].lastButtonState = HIGH
  /\ encoders[0].lastDebounceTime > 0
  /\ now - encoders[0].lastDebounceTime <= DEBOUNCE_DELAY
  /\ encoders[0].isMuted

=============================================================================
